---------------------------- MODULE Spec2Model ----------------------------
(***************************************************************************)
(* A model of opentracing-go: the in-memory MockTracer (mocktracer.go),    *)
(* the testTracer of the package's unit tests (testtracer_test.go), the    *)
(* start-span options (tracer.go) and the text-map propagation of a span's *)
(* identity and baggage through Inject / Extract.                          *)
(*                                                                         *)
(* Go strings that the code takes apart (carrier keys, baggage keys, the   *)
(* decimal text of an id) are sequences of one-character strings, so that  *)
(* strings.ToLower, strings.HasPrefix, strconv.Itoa and strconv.Atoi are   *)
(* computed character by character.                                        *)
(***************************************************************************)
EXTENDS Integers, Sequences, FiniteSets, TLC

VARIABLES
    mockIDSource,   \* mocktracer.go: var mockIDSource
    fakeIDSource,   \* testtracer_test.go: var fakeIDSource
    now,            \* the wall clock read by time.Now()
    spans,          \* every MockSpan allocated so far, in allocation order
    testSpans,      \* every testSpan allocated so far, in allocation order
    FinishedSpans,  \* MockTracer.FinishedSpans: indices into spans
    carrier,        \* the text-map carrier (a Go map[string]string)
    lastStart,      \* arguments and outcome of the latest StartSpan call
    lastInject,     \* arguments and outcome of the latest Inject call
    lastExtract,    \* arguments and outcome of the latest Extract call
    panicked,       \* TRUE once a call has panicked (the process is gone)
    pc,             \* per thread: position inside a concurrent call
    reg,            \* per thread: the value held in the thread's locals
    contexts,       \* every context.Context built so far, Background first
    lastCtxStart,   \* arguments and outcome of the latest StartSpanFromContext
    lastFinish      \* arguments of the latest Finish / FinishWithOptions call

vars == <<mockIDSource, fakeIDSource, now, spans, testSpans, FinishedSpans,
          carrier, lastStart, lastInject, lastExtract, panicked, pc, reg,
          contexts, lastCtxStart, lastFinish>>

-----------------------------------------------------------------------------
(* Bounds *)

MaxSpans == 2
MaxOpts == 2
MaxTime == 2
MaxCarrierKeys == 3
MaxThreads == 2
MaxCalls == 2
MaxLogs == 2
MaxFinished == 2
MaxContexts == 4

\* the goroutines of the concurrent scenarios
Threads == 1..MaxThreads

-----------------------------------------------------------------------------
(* Strings *)

UpperChars == <<"A","B","C","D","E","F","G","H","I","J","K","L","M",
                "N","O","P","Q","R","S","T","U","V","W","X","Y","Z">>
LowerChars == <<"a","b","c","d","e","f","g","h","i","j","k","l","m",
                "n","o","p","q","r","s","t","u","v","w","x","y","z">>
DigitChars == <<"0","1","2","3","4","5","6","7","8","9">>

Chars ==
    {UpperChars[i] : i \in 1..26} \cup {LowerChars[i] : i \in 1..26}
        \cup {DigitChars[i] : i \in 1..10} \cup {"-", "+"}

\* unicode.ToLower on the characters used here
ToLowerChar ==
    [c \in Chars |->
        IF \E i \in 1..26 : UpperChars[i] = c
        THEN LowerChars[CHOOSE i \in 1..26 : UpperChars[i] = c]
        ELSE c]

\* strings.ToLower
ToLower(s) == [i \in 1..Len(s) |-> ToLowerChar[s[i]]]

\* strings.HasPrefix
HasPrefix(s, prefix) ==
    /\ Len(s) >= Len(prefix)
    /\ SubSeq(s, 1, Len(prefix)) = prefix

IsDigit(c) == \E i \in 1..10 : DigitChars[i] = c
DigitVal(c) == (CHOOSE i \in 1..10 : DigitChars[i] = c) - 1

RECURSIVE FormatDigits(_)
FormatDigits(n) ==
    IF n < 10 THEN <<DigitChars[n + 1]>>
    ELSE FormatDigits(n \div 10) \o <<DigitChars[(n % 10) + 1]>>

\* strconv.Itoa
Itoa(n) == IF n < 0 THEN <<"-">> \o FormatDigits(0 - n) ELSE FormatDigits(n)

RECURSIVE ParseDigits(_, _)
ParseDigits(s, acc) ==
    IF s = <<>> THEN acc
    ELSE ParseDigits(Tail(s), acc * 10 + DigitVal(Head(s)))

\* strconv.Atoi: an optional sign, then one or more decimal digits; anything
\* else is a *strconv.NumError.
Atoi(s) ==
    LET signed == Len(s) > 0 /\ s[1] \in {"+", "-"}
        digits == IF signed THEN Tail(s) ELSE s
        ok     == Len(digits) > 0 /\ \A i \in 1..Len(digits) : IsDigit(digits[i])
        mag    == IF ok THEN ParseDigits(digits, 0) ELSE 0
    IN  IF ~ok THEN [i |-> 0, err |-> "NumError"]
        ELSE [i |-> IF signed /\ s[1] = "-" THEN 0 - mag ELSE mag, err |-> "nil"]

-----------------------------------------------------------------------------
(* Propagation constants, formats and errors *)

mockTextMapIdsPrefix == <<"m","o","c","k","p","f","x","-","i","d","s","-">>
mockTextMapBaggagePrefix ==
    <<"m","o","c","k","p","f","x","-","b","a","g","g","a","g","e","-">>
testHTTPHeaderPrefix == <<"t","e","s","t","p","r","e","f","i","x","-">>

MockSpanIDKey == mockTextMapIdsPrefix \o <<"s","p","a","n","i","d">>
TestFakeIDKey == testHTTPHeaderPrefix \o <<"f","a","k","e","i","d">>

\* the format identifiers a caller can pass: the built-in TextMap, which both
\* tracers handle, and the built-in Binary, which neither does
Formats == {"TextMap", "Binary"}

NoError == "nil"

\* a nil SpanMetadata interface value
NilMetadata == [impl |-> "nil", SpanID |-> 0, Baggage |-> <<>>]

\* maps (Go map[string]string) are functions; m[key] = val
MapSet(m, key, val) ==
    [k \in (DOMAIN m) \cup {key} |-> IF k = key THEN val ELSE m[k]]

EmptyMap == <<>>

-----------------------------------------------------------------------------
(* Text-map carrier (TextMapCarrier: a Go map used as writer and reader) *)

\* TextMapWriter.Set: a later Set of the same key overwrites
CarrierSetKey(c, key, val) == MapSet(c, key, val)

\* TextMapReader.ForeachKey visits every key once, in an unspecified order:
\* the orders in which the keys of c can be visited
RECURSIVE Orders(_)
Orders(keys) ==
    IF keys = {} THEN {<<>>}
    ELSE UNION {{<<k>> \o o : o \in Orders(keys \ {k})} : k \in keys}

ForeachKeyOrders(c) == Orders(DOMAIN c)

-----------------------------------------------------------------------------
(* SpanMetadata values *)

\* newMockSpanMetadata
newMockSpanMetadata(spanID) ==
    [impl |-> "mock", SpanID |-> spanID, Baggage |-> EmptyMap]

\* the *MockSpanMetadata a MockSpan owns (MockSpan.Metadata)
MockMetadata(s) == [impl |-> "mock", SpanID |-> s.SpanID, Baggage |-> s.Baggage]

\* the testSpanMetadata a testSpan holds (testSpan.Metadata)
TestMetadata(s) == [impl |-> "test", HasParent |-> s.HasParent, FakeID |-> s.FakeID]

-----------------------------------------------------------------------------
(* Inject *)

\* the loop "for baggageKey, baggageVal := range spanMetadata.Baggage":
\* one Set per entry (the entries' keys are distinct, so the visiting order
\* does not change the carrier that results)
RECURSIVE InjectBaggage(_, _)
InjectBaggage(c, baggage) ==
    IF DOMAIN baggage = {} THEN c
    ELSE LET k    == CHOOSE x \in DOMAIN baggage : TRUE
             rest == [x \in (DOMAIN baggage) \ {k} |-> baggage[x]]
         IN  InjectBaggage(
                 CarrierSetKey(c, mockTextMapBaggagePrefix \o k, baggage[k]), rest)

\* MockTracer.Inject without the baggage loop
MockInjectNoBaggage(sm, format, c) ==
    IF format = "TextMap"
    THEN [carrier |-> CarrierSetKey(c, MockSpanIDKey, Itoa(sm.SpanID)),
          sets    |-> 1,
          err     |-> NoError]
    ELSE [carrier |-> c, sets |-> 0, err |-> "ErrUnsupportedFormat"]

\* MockTracer.Inject writing the id before it looks at the format
MockInjectSetsFirst(sm, format, c) ==
    LET written == CarrierSetKey(c, MockSpanIDKey, Itoa(sm.SpanID))
    IN  IF format = "TextMap"
        THEN [carrier |-> InjectBaggage(written, sm.Baggage),
              sets    |-> 1 + Cardinality(DOMAIN sm.Baggage),
              err     |-> NoError]
        ELSE [carrier |-> written, sets |-> 1, err |-> "ErrUnsupportedFormat"]

\* MockTracer.Inject: the carrier after the call, the number of Set calls
\* issued and the error returned
MockInject(sm, format, c) ==
    IF format = "TextMap"
    THEN [carrier |-> InjectBaggage(
                          CarrierSetKey(c, MockSpanIDKey, Itoa(sm.SpanID)),
                          sm.Baggage),
          sets    |-> 1 + Cardinality(DOMAIN sm.Baggage),
          err     |-> NoError]
    ELSE [carrier |-> c, sets |-> 0, err |-> "ErrUnsupportedFormat"]

\* testTracer.Inject
TestInject(sm, format, c) ==
    IF format = "TextMap"
    THEN [carrier |-> CarrierSetKey(c, TestFakeIDKey, Itoa(sm.FakeID)),
          sets    |-> 1,
          err     |-> NoError]
    ELSE [carrier |-> c, sets |-> 0, err |-> "ErrUnsupportedFormat"]

-----------------------------------------------------------------------------
(* Extract *)

\* the ForeachKey callback of MockTracer.Extract applied to order[i..]; a
\* callback error stops the walk and is what ForeachKey returns
RECURSIVE MockVisit(_, _, _, _)
MockVisit(rval, c, order, i) ==
    IF i > Len(order) THEN [sm |-> rval, err |-> NoError]
    ELSE LET key      == order[i]
             val      == c[key]
             lowerKey == ToLower(key)
         IN  IF lowerKey = MockSpanIDKey
             THEN LET r == Atoi(val)
                  IN  IF r.err # NoError
                      THEN [sm |-> rval, err |-> r.err]
                      ELSE MockVisit([rval EXCEPT !.SpanID = r.i], c, order, i + 1)
             ELSE IF HasPrefix(lowerKey, mockTextMapBaggagePrefix)
             THEN MockVisit(
                      [rval EXCEPT !.Baggage =
                          MapSet(rval.Baggage,
                                 SubSeq(lowerKey, Len(mockTextMapBaggagePrefix) + 1,
                                        Len(lowerKey)),
                                 val)],
                      c, order, i + 1)
             ELSE MockVisit(rval, c, order, i + 1)

\* MockTracer.Extract, the carrier's keys being visited in the given order
MockExtract(format, c, order) ==
    IF format = "TextMap"
    THEN MockVisit(newMockSpanMetadata(0), c, order, 1)
    ELSE [sm |-> NilMetadata, err |-> "ErrSpanMetadataNotFound"]

\* the ForeachKey callback of testTracer.Extract applied to order[i..]
RECURSIVE TestVisit(_, _, _, _)
TestVisit(sm, c, order, i) ==
    IF i > Len(order) THEN [sm |-> sm, err |-> NoError]
    ELSE IF ToLower(order[i]) = TestFakeIDKey
         THEN LET r == Atoi(c[order[i]])
              IN  IF r.err # NoError
                  THEN [sm |-> sm, err |-> r.err]
                  ELSE TestVisit([sm EXCEPT !.FakeID = r.i], c, order, i + 1)
         ELSE TestVisit(sm, c, order, i + 1)

\* testTracer.Extract
TestExtract(format, c, order) ==
    IF format = "TextMap"
    THEN TestVisit([impl |-> "test", HasParent |-> FALSE, FakeID |-> 0], c, order, 1)
    ELSE [sm |-> NilMetadata, err |-> "ErrSpanMetadataNotFound"]

-----------------------------------------------------------------------------
(* Start-span options *)

RefBlockedParent == 0
RefRPCClient == 1
RefStartedBefore == 2
RefFinishedBefore == 3
\* ReferenceType is an int: a value past the declared constants
RefUndeclared == RefFinishedBefore + 1

\* ReferenceType.IntraTrace
IntraTrace(r) == r <= RefFinishedBefore

\* ReferenceType.Point
Point(r, referent) == [kind |-> "ref", Type |-> r, Metadata |-> referent]

\* the zero StartSpanOptions (a nil Tags map reads as the empty map)
ZeroStartSpanOptions == [References |-> <<>>, StartTime |-> 0, Tags |-> EmptyMap]

\* Apply dropping a reference that the list already holds
ApplyDeduplicating(o, sso) ==
    CASE o.kind = "ref"  ->
             IF \E i \in 1..Len(sso.References) :
                    sso.References[i] = [Type |-> o.Type, Metadata |-> o.Metadata]
             THEN sso
             ELSE [sso EXCEPT !.References =
                      Append(sso.References,
                             [Type |-> o.Type, Metadata |-> o.Metadata])]
      [] o.kind = "time" -> [sso EXCEPT !.StartTime = o.StartTime]
      [] o.kind = "tags" -> [sso EXCEPT !.Tags = o.Tags]

\* SpanReference.Apply, StartTime.Apply and Tags.Apply
Apply(o, sso) ==
    CASE o.kind = "ref"  ->
             [sso EXCEPT !.References =
                 Append(sso.References, [Type |-> o.Type, Metadata |-> o.Metadata])]
      [] o.kind = "time" -> [sso EXCEPT !.StartTime = o.StartTime]
      [] o.kind = "tags" -> [sso EXCEPT !.Tags = o.Tags]

\* the loop "for _, o := range opts" of StartSpan
RECURSIVE ApplyAll(_, _)
ApplyAll(opts, sso) ==
    IF opts = <<>> THEN sso ELSE ApplyAll(Tail(opts), Apply(Head(opts), sso))

-----------------------------------------------------------------------------
(* MockTracer: span creation *)

\* nextMockID without the increment
nextMockIDNoIncrement(source) == [source |-> source, id |-> source]

\* nextMockID, run without interruption: the counter after the call and the
\* id returned
nextMockID(source) == [source |-> source + 1, id |-> source + 1]

\* newMockSpan panics when the first reference's referent is not a
\* *MockSpanMetadata (the unchecked type assertion of line 140)
newMockSpanPanics(opts) ==
    /\ Len(opts.References) > 0
    /\ opts.References[1].Metadata.impl # "mock"

\* newMockSpan: the MockSpan built from the options, the clock and the id
newMockSpan(name, opts, clock, id) ==
    [ParentID      |-> IF Len(opts.References) > 0
                       THEN opts.References[1].Metadata.SpanID
                       ELSE 0,
     OperationName |-> name,
     StartTime     |-> IF opts.StartTime = 0 THEN clock ELSE opts.StartTime,
     FinishTime    |-> 0,
     Tags          |-> opts.Tags,
     Logs          |-> <<>>,
     SpanID        |-> id,
     Baggage       |-> EmptyMap]

NoCall == [called |-> FALSE]

\* context.Background(): no parent and no value
Background == [parent |-> 0, key |-> "none", span |-> 0]

\* MockTracer.StartSpan: what the call does to the tracer
MockStartSpanCall(operationName, opts) ==
    /\ ~panicked
    /\ Len(spans) < MaxSpans
    /\ LET sso == ApplyAll(opts, ZeroStartSpanOptions)
           nid == nextMockID(mockIDSource)
       IN  IF newMockSpanPanics(sso)
           THEN /\ panicked' = TRUE
                /\ lastStart' = [called |-> TRUE, tracer |-> "mock",
                                 name |-> operationName, args |-> opts,
                                 opts |-> sso,
                                 outcome |-> "panic", span |-> 0]
                /\ UNCHANGED <<mockIDSource, spans>>
           ELSE /\ panicked' = FALSE
                /\ mockIDSource' = nid.source
                /\ spans' = Append(spans, newMockSpan(operationName, sso, now, nid.id))
                /\ lastStart' = [called |-> TRUE, tracer |-> "mock",
                                 name |-> operationName, args |-> opts,
                                 opts |-> sso,
                                 outcome |-> "ok", span |-> Len(spans) + 1]
    /\ UNCHANGED <<fakeIDSource, now, testSpans, FinishedSpans, carrier,
                   lastInject, lastExtract, pc, reg>>

\* MockTracer.StartSpan called directly
MockStartSpan(operationName, opts) ==
    /\ MockStartSpanCall(operationName, opts)
    /\ UNCHANGED <<contexts, lastCtxStart, lastFinish>>

-----------------------------------------------------------------------------
(* gocontext.go: spans bound to a context.Context.  A context is an index
   into contexts; 0 is no context, and a span value 0 is nil. *)

\* the key under which the active span is stored
activeSpanKey == "activeSpanKey"

\* context.WithValue: a child of ctx that binds key to val
WithValue(ctx, key, val) == [parent |-> ctx, key |-> key, span |-> val]

\* ctx.Value(key): the nearest binding of key on the way to the root
RECURSIVE Value(_, _)
Value(ctx, key) ==
    IF ctx = 0 THEN 0
    ELSE IF contexts[ctx].key = key THEN contexts[ctx].span
    ELSE Value(contexts[ctx].parent, key)

\* ContextWithSpan binding the span under another key
ContextWithSpanOtherKey(ctx, span) == WithValue(ctx, "otherKey", span)
\* ContextWithSpan
ContextWithSpan(ctx, span) == WithValue(ctx, activeSpanKey, span)

\* SpanFromContext
SpanFromContext(ctx) == Value(ctx, activeSpanKey)

\* the options startSpanFromContextWithTracer hands to tracer.StartSpan
ParentReference(parentSpan) ==
    IF parentSpan # 0
    THEN <<Point(RefBlockedParent, MockMetadata(spans[parentSpan]))>>
    ELSE <<>>

\* startSpanFromContextWithTracer with a MockTracer
startSpanFromContextWithTracer(ctx, operationName, opts) ==
    /\ ctx \in 1..Len(contexts)
    /\ Len(contexts) < MaxContexts
    /\ LET parentSpan == SpanFromContext(ctx)
       IN  /\ MockStartSpanCall(operationName, ParentReference(parentSpan))
           /\ contexts' = Append(contexts, ContextWithSpan(ctx, Len(spans) + 1))
           /\ lastCtxStart' = [called |-> TRUE, ctx |-> ctx,
                               parentSpan |-> parentSpan, opts |-> opts,
                               clock |-> now, out |-> Len(contexts) + 1]
    /\ UNCHANGED lastFinish

\* StartSpanFromContext, the global tracer being a MockTracer
StartSpanFromContext(ctx, operationName, opts) ==
    startSpanFromContextWithTracer(ctx, operationName, opts)

\* the caller derives a context that binds some other key
CallerWithValue(ctx) ==
    /\ ~panicked
    /\ ctx \in 1..Len(contexts)
    /\ Len(contexts) < MaxContexts
    /\ contexts' = Append(contexts, WithValue(ctx, "otherKey", 0))
    /\ UNCHANGED <<mockIDSource, fakeIDSource, now, spans, testSpans,
                   FinishedSpans, carrier, lastStart, lastInject, lastExtract,
                   panicked, pc, reg, lastCtxStart, lastFinish>>

-----------------------------------------------------------------------------
(* testTracer: span creation *)

\* nextFakeID
nextFakeID(source) == [source |-> source + 1, id |-> source + 1]

\* startSpanWithOptions panics when the first reference's referent is not a
\* testSpanMetadata (the unchecked type assertion of line 57)
startSpanWithOptionsPanics(opts) ==
    /\ Len(opts.References) > 0
    /\ opts.References[1].Metadata.impl # "test"

\* testTracer.startSpanWithOptions: the testSpan built from the options and
\* the id that nextFakeID handed out
startSpanWithOptions(name, opts, id) ==
    [OperationName |-> name,
     HasParent     |-> Len(opts.References) > 0,
     FakeID        |-> IF Len(opts.References) > 0
                       THEN opts.References[1].Metadata.FakeID
                       ELSE id]

\* testTracer.StartSpan; nextFakeID runs before the type assertion, so the
\* counter has advanced even when the call panics
TestStartSpan(operationName, opts) ==
    /\ ~panicked
    /\ Len(testSpans) < MaxSpans
    /\ LET sso == ApplyAll(opts, ZeroStartSpanOptions)
           nid == nextFakeID(fakeIDSource)
       IN  /\ fakeIDSource' = nid.source
           /\ IF startSpanWithOptionsPanics(sso)
              THEN /\ panicked' = TRUE
                   /\ lastStart' = [called |-> TRUE, tracer |-> "test",
                                    name |-> operationName, args |-> opts,
                                 opts |-> sso,
                                    outcome |-> "panic", span |-> 0]
                   /\ UNCHANGED testSpans
              ELSE /\ panicked' = FALSE
                   /\ testSpans' = Append(testSpans,
                                          startSpanWithOptions(operationName, sso, nid.id))
                   /\ lastStart' = [called |-> TRUE, tracer |-> "test",
                                    name |-> operationName, args |-> opts,
                                 opts |-> sso,
                                    outcome |-> "ok", span |-> Len(testSpans) + 1]
    /\ UNCHANGED <<mockIDSource, now, spans, FinishedSpans, carrier,
                   lastInject, lastExtract, pc, reg>>
    /\ UNCHANGED <<contexts, lastCtxStart, lastFinish>>

-----------------------------------------------------------------------------
(* MockTracer.StartSpan called from several goroutines.  Nothing guards      *)
(* mockIDSource, so "mockIDSource++; return mockIDSource" is a load, a store *)
(* and a second load that other goroutines' steps can come between.          *)

\* a goroutine enters StartSpan(name) with no options and reaches nextMockID
ConcStartCall(t) ==
    /\ pc[t] = "idle"
    /\ reg[t].calls < MaxCalls
    /\ pc' = [pc EXCEPT ![t] = "inc_load"]
    /\ reg' = [reg EXCEPT ![t].calls = @ + 1]
    /\ UNCHANGED <<mockIDSource, fakeIDSource, now, spans, testSpans,
                   FinishedSpans, carrier, lastStart, lastInject, lastExtract,
                   panicked>>
    /\ UNCHANGED <<contexts, lastCtxStart, lastFinish>>

\* mockIDSource++ : the load
ConcIncLoad(t) ==
    /\ pc[t] = "inc_load"
    /\ reg' = [reg EXCEPT ![t].id = mockIDSource]
    /\ pc' = [pc EXCEPT ![t] = "inc_store"]
    /\ UNCHANGED <<mockIDSource, fakeIDSource, now, spans, testSpans,
                   FinishedSpans, carrier, lastStart, lastInject, lastExtract,
                   panicked>>
    /\ UNCHANGED <<contexts, lastCtxStart, lastFinish>>

\* mockIDSource++ : the store
ConcIncStore(t) ==
    /\ pc[t] = "inc_store"
    /\ mockIDSource' = reg[t].id + 1
    /\ pc' = [pc EXCEPT ![t] = "ret_load"]
    /\ UNCHANGED <<fakeIDSource, now, spans, testSpans, FinishedSpans, carrier,
                   lastStart, lastInject, lastExtract, panicked, reg>>
    /\ UNCHANGED <<contexts, lastCtxStart, lastFinish>>

\* return mockIDSource, and newMockSpan builds the span with that id
ConcReturn(t) ==
    /\ pc[t] = "ret_load"
    /\ spans' = Append(spans,
                       newMockSpan("op", ZeroStartSpanOptions, now, mockIDSource))
    /\ reg' = [reg EXCEPT ![t].id = mockIDSource]
    /\ pc' = [pc EXCEPT ![t] = "idle"]
    /\ UNCHANGED <<mockIDSource, fakeIDSource, now, testSpans, FinishedSpans,
                   carrier, lastStart, lastInject, lastExtract, panicked>>
    /\ UNCHANGED <<contexts, lastCtxStart, lastFinish>>

-----------------------------------------------------------------------------
(* MockSpan.Finish / FinishWithOptions called from several goroutines, each  *)
(* on a span of its own.  Nothing guards MockTracer.FinishedSpans, so the    *)
(* append is a load of the slice and a store of the longer slice.            *)

\* the spans some goroutine has finished or is finishing
FinishClaimed ==
    UNION {reg[t].done : t \in Threads}
        \cup {reg[t].span : t \in {u \in Threads : pc[u] # "idle"}}

\* MockSpan.Finish up to the append: s.FinishTime = time.Now()
ConcFinishCall(t, i) ==
    /\ pc[t] = "idle"
    /\ i \in (1..Len(spans)) \ FinishClaimed
    /\ spans' = [spans EXCEPT ![i].FinishTime = now]
    /\ reg' = [reg EXCEPT ![t].span = i]
    /\ pc' = [pc EXCEPT ![t] = "fin_load"]
    /\ UNCHANGED <<mockIDSource, fakeIDSource, now, testSpans, FinishedSpans,
                   carrier, lastStart, lastInject, lastExtract, panicked>>
    /\ UNCHANGED <<contexts, lastCtxStart, lastFinish>>

\* MockSpan.FinishWithOptions up to the second append:
\* s.FinishTime = opts.FinishTime; s.Logs = append(s.Logs, opts.BulkLogData...)
ConcFinishWithOptionsCall(t, i, opts) ==
    /\ pc[t] = "idle"
    /\ i \in (1..Len(spans)) \ FinishClaimed
    /\ spans' = [spans EXCEPT ![i].FinishTime = opts.FinishTime,
                              ![i].Logs = @ \o opts.BulkLogData]
    /\ reg' = [reg EXCEPT ![t].span = i]
    /\ pc' = [pc EXCEPT ![t] = "fin_load"]
    /\ UNCHANGED <<mockIDSource, fakeIDSource, now, testSpans, FinishedSpans,
                   carrier, lastStart, lastInject, lastExtract, panicked>>
    /\ UNCHANGED <<contexts, lastCtxStart, lastFinish>>

\* append(s.tracer.FinishedSpans, s): the load of the slice
ConcFinishLoad(t) ==
    /\ pc[t] = "fin_load"
    /\ reg' = [reg EXCEPT ![t].list = FinishedSpans]
    /\ pc' = [pc EXCEPT ![t] = "fin_store"]
    /\ UNCHANGED <<mockIDSource, fakeIDSource, now, spans, testSpans,
                   FinishedSpans, carrier, lastStart, lastInject, lastExtract,
                   panicked>>
    /\ UNCHANGED <<contexts, lastCtxStart, lastFinish>>

\* s.tracer.FinishedSpans = ... : the store of the longer slice; the call
\* returns
ConcFinishStore(t) ==
    /\ pc[t] = "fin_store"
    /\ FinishedSpans' = Append(reg[t].list, reg[t].span)
    /\ reg' = [reg EXCEPT ![t].done = @ \cup {reg[t].span}, ![t].list = <<>>]
    /\ pc' = [pc EXCEPT ![t] = "idle"]
    /\ UNCHANGED <<mockIDSource, fakeIDSource, now, spans, testSpans, carrier,
                   lastStart, lastInject, lastExtract, panicked>>
    /\ UNCHANGED <<contexts, lastCtxStart, lastFinish>>

-----------------------------------------------------------------------------
(* MockSpan: the calls of one goroutine on spans[i] *)

\* opentracing.LogData, as far as the MockSpan fills it
LogData(event, payload) == [Event |-> event, Payload |-> payload]

\* MockSpan.SetTag
SetTag(i, key, value) ==
    /\ ~panicked
    /\ i \in 1..Len(spans)
    /\ spans' = [spans EXCEPT ![i].Tags = MapSet(@, key, value)]
    /\ UNCHANGED <<mockIDSource, fakeIDSource, now, testSpans, FinishedSpans,
                   carrier, lastStart, lastInject, lastExtract, panicked, pc,
                   reg, contexts, lastCtxStart, lastFinish>>

\* MockSpan.Log
Log(i, data) ==
    /\ ~panicked
    /\ i \in 1..Len(spans)
    /\ Len(spans[i].Logs) < MaxLogs
    /\ spans' = [spans EXCEPT ![i].Logs = Append(@, data)]
    /\ UNCHANGED <<mockIDSource, fakeIDSource, now, testSpans, FinishedSpans,
                   carrier, lastStart, lastInject, lastExtract, panicked, pc,
                   reg, contexts, lastCtxStart, lastFinish>>

\* MockSpan.LogEvent
LogEvent(i, event) == Log(i, LogData(event, "nil"))

\* MockSpan.LogEventWithPayload
LogEventWithPayload(i, event, payload) == Log(i, LogData(event, payload))

\* MockSpan.SetOperationName
SetOperationName(i, operationName) ==
    /\ ~panicked
    /\ i \in 1..Len(spans)
    /\ spans' = [spans EXCEPT ![i].OperationName = operationName]
    /\ UNCHANGED <<mockIDSource, fakeIDSource, now, testSpans, FinishedSpans,
                   carrier, lastStart, lastInject, lastExtract, panicked, pc,
                   reg, contexts, lastCtxStart, lastFinish>>

\* MockSpan.Finish
Finish(i) ==
    /\ ~panicked
    /\ i \in 1..Len(spans)
    /\ Len(FinishedSpans) < MaxFinished
    /\ spans' = [spans EXCEPT ![i].FinishTime = now]
    /\ FinishedSpans' = Append(FinishedSpans, i)
    /\ lastFinish' = [called |-> TRUE, kind |-> "Finish", span |-> i,
                      opts |-> [FinishTime |-> 0, BulkLogData |-> <<>>],
                      clock |-> now]
    /\ UNCHANGED <<mockIDSource, fakeIDSource, now, testSpans, carrier,
                   lastStart, lastInject, lastExtract, panicked, pc, reg,
                   contexts, lastCtxStart>>

\* MockSpan.FinishWithOptions
FinishWithOptions(i, opts) ==
    /\ ~panicked
    /\ i \in 1..Len(spans)
    /\ Len(FinishedSpans) < MaxFinished
    /\ Len(spans[i].Logs) + Len(opts.BulkLogData) <= MaxLogs
    /\ spans' = [spans EXCEPT ![i].FinishTime = opts.FinishTime,
                              ![i].Logs = @ \o opts.BulkLogData]
    /\ FinishedSpans' = Append(FinishedSpans, i)
    /\ lastFinish' = [called |-> TRUE, kind |-> "FinishWithOptions", span |-> i,
                      opts |-> opts, clock |-> now]
    /\ UNCHANGED <<mockIDSource, fakeIDSource, now, testSpans, carrier,
                   lastStart, lastInject, lastExtract, panicked, pc, reg,
                   contexts, lastCtxStart>>

\* the clock advances between calls
Tick ==
    /\ ~panicked
    /\ now < MaxTime
    /\ now' = now + 1
    /\ UNCHANGED <<mockIDSource, fakeIDSource, spans, testSpans, FinishedSpans,
                   carrier, lastStart, lastInject, lastExtract, panicked, pc, reg>>
    /\ UNCHANGED <<contexts, lastCtxStart, lastFinish>>

-----------------------------------------------------------------------------
(* Baggage and propagation calls *)

\* MockSpanMetadata.SetBaggageItem on the metadata of spans[i]
SetBaggageItem(i, key, val) ==
    /\ ~panicked
    /\ i \in 1..Len(spans)
    /\ spans' = [spans EXCEPT ![i].Baggage = MapSet(@, key, val)]
    /\ lastInject' = NoCall
    /\ lastExtract' = NoCall
    /\ UNCHANGED <<mockIDSource, fakeIDSource, now, testSpans, FinishedSpans,
                   carrier, lastStart, panicked, pc, reg>>
    /\ UNCHANGED <<contexts, lastCtxStart, lastFinish>>

\* the caller takes a fresh, empty carrier
NewCarrier ==
    /\ ~panicked
    /\ carrier' = EmptyMap
    /\ lastInject' = NoCall
    /\ lastExtract' = NoCall
    /\ UNCHANGED <<mockIDSource, fakeIDSource, now, spans, testSpans,
                   FinishedSpans, lastStart, panicked, pc, reg>>
    /\ UNCHANGED <<contexts, lastCtxStart, lastFinish>>

\* somebody other than the tracer writes the carrier (headers of an incoming
\* request, say)
CarrierWrite(key, val) ==
    /\ ~panicked
    /\ Cardinality(DOMAIN CarrierSetKey(carrier, key, val)) <= MaxCarrierKeys
    /\ carrier' = CarrierSetKey(carrier, key, val)
    /\ lastInject' = NoCall
    /\ lastExtract' = NoCall
    /\ UNCHANGED <<mockIDSource, fakeIDSource, now, spans, testSpans,
                   FinishedSpans, lastStart, panicked, pc, reg>>
    /\ UNCHANGED <<contexts, lastCtxStart, lastFinish>>

InjectReturns(tracer, sm, format, r) ==
    /\ Cardinality(DOMAIN r.carrier) <= MaxCarrierKeys
    /\ carrier' = r.carrier
    /\ lastInject' = [called |-> TRUE, tracer |-> tracer, sm |-> sm,
                      format |-> format, before |-> carrier,
                      after |-> r.carrier, sets |-> r.sets, err |-> r.err]
    /\ lastExtract' = NoCall
    /\ UNCHANGED <<mockIDSource, fakeIDSource, now, spans, testSpans,
                   FinishedSpans, lastStart, panicked, pc, reg>>
    /\ UNCHANGED <<contexts, lastCtxStart, lastFinish>>

\* MockTracer.Inject(spans[i].Metadata(), format, carrier)
MockInjectCall(i, format) ==
    /\ ~panicked
    /\ i \in 1..Len(spans)
    /\ InjectReturns("mock", MockMetadata(spans[i]), format,
                     MockInject(MockMetadata(spans[i]), format, carrier))

\* testTracer.Inject(testSpans[i].Metadata(), format, carrier)
TestInjectCall(i, format) ==
    /\ ~panicked
    /\ i \in 1..Len(testSpans)
    /\ InjectReturns("test", TestMetadata(testSpans[i]), format,
                     TestInject(TestMetadata(testSpans[i]), format, carrier))

ExtractReturns(tracer, format, r) ==
    /\ lastExtract' = [called |-> TRUE, tracer |-> tracer, format |-> format,
                       carrier |-> carrier, sm |-> r.sm, err |-> r.err]
    /\ UNCHANGED <<mockIDSource, fakeIDSource, now, spans, testSpans,
                   FinishedSpans, carrier, lastStart, lastInject, panicked,
                   pc, reg>>
    /\ UNCHANGED <<contexts, lastCtxStart, lastFinish>>

\* MockTracer.Extract(format, carrier)
MockExtractCall(format) ==
    /\ ~panicked
    /\ \E order \in ForeachKeyOrders(carrier) :
           ExtractReturns("mock", format, MockExtract(format, carrier, order))

\* testTracer.Extract(format, carrier)
TestExtractCall(format) ==
    /\ ~panicked
    /\ \E order \in ForeachKeyOrders(carrier) :
           ExtractReturns("test", format, TestExtract(format, carrier, order))

-----------------------------------------------------------------------------
(* Inputs *)

OperationNames == {"", "op"}

BaggageKeyInputs == {<<"k">>, <<"K">>, <<"b">>}
BaggageValInputs == {<<"7">>, <<"z">>}

\* the id key as a canonicalising transport would spell it
MockSpanIDKeyTitled == [MockSpanIDKey EXCEPT ![1] = "M"]

CarrierKeyInputs ==
    {MockSpanIDKeyTitled, mockTextMapBaggagePrefix \o <<"k">>, TestFakeIDKey}
TestCarrierKeyInputs == {[TestFakeIDKey EXCEPT ![1] = "T"], MockSpanIDKey}
CarrierValInputs == {<<"7">>, <<"z">>}

\* what a caller can point a reference at: nil (what a failed Extract
\* returned), the metadata MockTracer.Extract returns for a carrier holding
\* the id 7, and the metadata of a local MockSpan
Referents ==
    {NilMetadata, newMockSpanMetadata(7)}
        \cup {MockMetadata(spans[i]) : i \in 1..Len(spans)}

RefTypeInputs == {RefBlockedParent, RefUndeclared}

OptionInputs == {Point(r, m) : r \in RefTypeInputs, m \in Referents}

OptionLists == UNION {[1..n -> OptionInputs] : n \in 0..MaxOpts}

\* the same for the testTracer: a MockTracer context (another tracer's), the
\* testSpanMetadata that testTracer.Extract returns for a carrier holding the
\* id 7, and the metadata of a local testSpan
TestReferents ==
    {newMockSpanMetadata(7), [impl |-> "test", HasParent |-> FALSE, FakeID |-> 7]}
        \cup {TestMetadata(testSpans[i]) : i \in 1..Len(testSpans)}

TestOptionLists ==
    UNION {[1..n -> {Point(r, m) : r \in RefTypeInputs, m \in TestReferents}] :
               n \in 0..MaxOpts}

\* every kind of start option: references, a start time, tags
AnyOptionInputs ==
    {Point(r, newMockSpanMetadata(7)) : r \in RefTypeInputs}
        \cup {[kind |-> "time", StartTime |-> 7]}
        \cup {[kind |-> "tags", Tags |-> [k \in {"a"} |-> 1]]}

AnyOptionLists == UNION {[1..n -> AnyOptionInputs] : n \in 0..MaxOpts}

\* the opts a caller gives StartSpanFromContext
CtxOptionLists ==
    {<<>>,
     <<[kind |-> "time", StartTime |-> 7]>>,
     <<[kind |-> "tags", Tags |-> [k \in {"a"} |-> 1]]>>,
     <<Point(RefStartedBefore, newMockSpanMetadata(7))>>}

-----------------------------------------------------------------------------
(* Specifications *)

Init ==
    /\ mockIDSource = 1
    /\ fakeIDSource = 1
    /\ now = 1
    /\ spans = <<>>
    /\ testSpans = <<>>
    /\ FinishedSpans = <<>>
    /\ carrier = EmptyMap
    /\ lastStart = NoCall
    /\ lastInject = NoCall
    /\ lastExtract = NoCall
    /\ panicked = FALSE
    /\ pc = [t \in Threads |-> "idle"]
    /\ reg = [t \in Threads |->
                 [id |-> 0, list |-> <<>>, span |-> 0, calls |-> 0, done |-> {}]]
    /\ contexts = <<Background>>
    /\ lastCtxStart = NoCall
    /\ lastFinish = NoCall

\* one goroutine starting spans on the MockTracer
Next ==
    \E name \in OperationNames, opts \in OptionLists : MockStartSpan(name, opts)

Spec == Init /\ [][Next]_vars

\* the span whose metadata is propagated
PropStartMock == spans = <<>> /\ MockStartSpan("op", <<>>)

\* one goroutine propagating MockTracer span metadata through a text-map
\* carrier
NextProp ==
    \/ PropStartMock
    \/ \E i \in 1..Len(spans), k \in BaggageKeyInputs, v \in BaggageValInputs :
           SetBaggageItem(i, k, v)
    \/ NewCarrier
    \/ \E k \in CarrierKeyInputs, v \in CarrierValInputs : CarrierWrite(k, v)
    \/ \E i \in 1..Len(spans), f \in Formats : MockInjectCall(i, f)
    \/ \E f \in Formats : MockExtractCall(f)

SpecProp == Init /\ [][NextProp]_vars

\* one goroutine starting testTracer spans and propagating their metadata
NextTest ==
    \/ \E opts \in TestOptionLists : TestStartSpan("op", opts)
    \/ NewCarrier
    \/ \E k \in TestCarrierKeyInputs, v \in CarrierValInputs : CarrierWrite(k, v)
    \/ \E i \in 1..Len(testSpans), f \in Formats : TestInjectCall(i, f)
    \/ \E f \in Formats : TestExtractCall(f)

SpecTest == Init /\ [][NextTest]_vars

\* one goroutine starting MockTracer spans with options of every kind
NextOpts ==
    \E opts \in AnyOptionLists : MockStartSpan("op", opts)

SpecOpts == Init /\ [][NextOpts]_vars

\* several goroutines starting root spans on the MockTracer
NextConcStart ==
    \/ \E t \in Threads : ConcStartCall(t)
    \/ \E t \in Threads : ConcIncLoad(t)
    \/ \E t \in Threads : ConcIncStore(t)
    \/ \E t \in Threads : ConcReturn(t)

SpecConcStart == Init /\ [][NextConcStart]_vars

FinishOptionsInputs ==
    {[FinishTime |-> ft, BulkLogData |-> logs] :
        ft \in {0, 7}, logs \in {<<>>, <<LogData("bulk", "nil")>>}}

\* the spans are started by one goroutine and finished by several
NextConcFinish ==
    \/ MockStartSpan("op", <<>>)
    \/ Tick
    \/ \E t \in Threads, i \in 1..Len(spans) : ConcFinishCall(t, i)
    \/ \E t \in Threads, i \in 1..Len(spans), opts \in FinishOptionsInputs :
           ConcFinishWithOptionsCall(t, i, opts)
    \/ \E t \in Threads : ConcFinishLoad(t)
    \/ \E t \in Threads : ConcFinishStore(t)

SpecConcFinish == Init /\ [][NextConcFinish]_vars

\* the span whose life is followed
LifeStart == spans = <<>> /\ MockStartSpan("op", <<>>)

\* one goroutine tagging, logging, renaming and finishing a MockSpan
NextLife ==
    \/ LifeStart
    \/ Tick
    \/ \E i \in 1..Len(spans), v \in {1, 2} : SetTag(i, "a", v)
    \/ \E i \in 1..Len(spans) : Log(i, LogData("e", "p"))
    \/ \E i \in 1..Len(spans) : LogEvent(i, "e")
    \/ \E i \in 1..Len(spans) : LogEventWithPayload(i, "f", "p")
    \/ \E i \in 1..Len(spans) : SetOperationName(i, "renamed")
    \/ \E i \in 1..Len(spans) : Finish(i)
    \/ \E i \in 1..Len(spans), opts \in FinishOptionsInputs :
           FinishWithOptions(i, opts)

SpecLife == Init /\ [][NextLife]_vars

\* spans started from contexts, each bound to a new context
NextCtx ==
    \/ \E ctx \in 1..Len(contexts), opts \in CtxOptionLists :
           StartSpanFromContext(ctx, "op", opts)
    \/ \E ctx \in 1..Len(contexts) : CallerWithValue(ctx)
    \/ Tick

SpecCtx == Init /\ [][NextCtx]_vars

-----------------------------------------------------------------------------
(* Properties of propagation (SpecProp) *)

\* the latest Extract read, with the TextMap format, exactly the carrier that
\* the latest MockTracer.Inject filled, with the TextMap format, starting
\* from an empty one
RoundTripDone ==
    /\ lastInject.called
    /\ lastExtract.called
    /\ lastInject.tracer = "mock"
    /\ lastExtract.tracer = "mock"
    /\ lastInject.format = "TextMap"
    /\ lastExtract.format = "TextMap"
    /\ lastInject.before = EmptyMap
    /\ lastExtract.carrier = lastInject.after

RoundTripSame ==
    /\ lastExtract.err = NoError
    /\ lastExtract.sm.impl = "mock"
    /\ lastExtract.sm.SpanID = lastInject.sm.SpanID
    /\ lastExtract.sm.Baggage = lastInject.sm.Baggage

\* C1 as stated: Inject into a fresh text-map carrier followed by Extract
\* returns no error and a context with the same SpanID and exactly the same
\* baggage, whatever the baggage keys are (upper-case letters included).
RoundTripAnyKeys == RoundTripDone => RoundTripSame

\* C1, amended: the same, for a context all of whose baggage keys are left
\* unchanged by strings.ToLower (keys without upper-case letters).
RoundTripLowerCaseKeys ==
    (/\ RoundTripDone
     /\ \A k \in DOMAIN lastInject.sm.Baggage : ToLower(k) = k)
        => RoundTripSame

\* a round trip of a context with two lower-case baggage keys has happened
RoundTripLowerCaseWitness ==
    /\ RoundTripDone
    /\ DOMAIN lastInject.sm.Baggage = {<<"k">>, <<"b">>}

\* C2: with a format other than TextMap, Inject and Extract both fail with
\* ErrUnsupportedFormat, and Extract returns a nil context.
UnsupportedFormatFails ==
    /\ (lastInject.called /\ lastInject.format # "TextMap")
           => lastInject.err = "ErrUnsupportedFormat"
    /\ (lastExtract.called /\ lastExtract.format # "TextMap")
           => /\ lastExtract.err = "ErrUnsupportedFormat"
              /\ lastExtract.sm = NilMetadata

\* C3: an Inject with a format other than TextMap issues no Set call, and the
\* carrier holds after the call what it held before.
InjectUnsupportedWritesNothing ==
    (lastInject.called /\ lastInject.format # "TextMap")
        => /\ lastInject.sets = 0
           /\ lastInject.after = lastInject.before
           /\ carrier = lastInject.before

\* an Inject with the Binary format has returned, for a context with baggage
\* and a carrier that already held keys
InjectUnsupportedWitness ==
    /\ lastInject.called
    /\ lastInject.format = "Binary"
    /\ lastInject.sm.Baggage # EmptyMap
    /\ lastInject.before # EmptyMap

\* the keys of c that the MockTracer reads the identity from
IdentityKeys(c) == {k \in DOMAIN c : ToLower(k) = MockSpanIDKey}

\* C4: Extract(TextMap, carrier) on a carrier without an identity key fails
\* with the Trace-Not-Found error and returns a nil context.
ExtractWithoutIdentityNotFound ==
    (/\ lastExtract.called
     /\ lastExtract.format = "TextMap"
     /\ IdentityKeys(lastExtract.carrier) = {})
        => /\ lastExtract.err \in {"ErrTraceNotFound", "ErrSpanMetadataNotFound"}
           /\ lastExtract.sm = NilMetadata

\* C5: Extract(TextMap, carrier) on a carrier whose identity key holds a
\* non-numeric value fails with the Trace-Corrupted error and returns a nil
\* context.
ExtractCorruptedIdentity ==
    (/\ lastExtract.called
     /\ lastExtract.format = "TextMap"
     /\ \E k \in IdentityKeys(lastExtract.carrier) :
            Atoi(lastExtract.carrier[k]).err # NoError)
        => /\ lastExtract.err = "ErrTraceCorrupted"
           /\ lastExtract.sm = NilMetadata

-----------------------------------------------------------------------------
(* Properties of span creation (Spec, SpecConcStart, SpecConcFinish) *)

\* C6: StartSpan never fails: whatever the operation name and the options
\* (a reference to a nil referent or to another tracer's context included),
\* the call completes without a panic and returns a span.
StartSpanNeverFails ==
    /\ ~panicked
    /\ lastStart.called => lastStart.outcome = "ok"

AllIdle == \A t \in Threads : pc[t] = "idle"

\* C7: under concurrent StartSpan calls no two spans receive the same SpanID
\* and no increment of the counter is lost.
ConcurrentIDsDistinct ==
    /\ \A i, j \in 1..Len(spans) : i # j => spans[i].SpanID # spans[j].SpanID
    /\ AllIdle => mockIDSource = 1 + Len(spans)

Range(seq) == {seq[i] : i \in 1..Len(seq)}

\* C8: under concurrent Finish / FinishWithOptions calls on distinct spans,
\* once all the calls have returned FinishedSpans contains every span that
\* was finished.
NoFinishedSpanLost ==
    AllIdle => \A t \in Threads : reg[t].done \subseteq Range(FinishedSpans)

\* C9: after any sequential series of StartSpan calls the SpanIDs are
\* strictly increasing in the order the spans were started; a span started
\* with zero references so has an id different from every other span's.
SpanIDsFreshAndIncreasing ==
    /\ \A i, j \in 1..Len(spans) : i < j => spans[i].SpanID < spans[j].SpanID
    /\ \A i \in 1..Len(spans) : spans[i].SpanID <= mockIDSource

\* a span with zero references has been started after another span
RootAfterOtherSpanWitness ==
    /\ lastStart.called
    /\ lastStart.outcome = "ok"
    /\ lastStart.opts.References = <<>>
    /\ lastStart.span >= 2

\* the positions of the intra-trace references of a reference list
IntraTraceAt(refs) == {i \in 1..Len(refs) : IntraTrace(refs[i].Type)}

\* C10: the ParentID of a started MockSpan is the SpanID of the referent of
\* the first intra-trace reference of the option list, references that are
\* not intra-trace being skipped, and 0 when there is no intra-trace
\* reference (all referents being MockTracer contexts).
ParentFromFirstIntraTrace ==
    (/\ lastStart.called
     /\ lastStart.tracer = "mock"
     /\ lastStart.outcome = "ok"
     /\ \A i \in 1..Len(lastStart.opts.References) :
            lastStart.opts.References[i].Metadata.impl = "mock")
        => LET refs  == lastStart.opts.References
               intra == IntraTraceAt(refs)
               first == CHOOSE i \in intra : \A j \in intra : i <= j
           IN  spans[lastStart.span].ParentID =
                   IF intra = {} THEN 0 ELSE refs[first].Metadata.SpanID

-----------------------------------------------------------------------------
(* Properties of the start options (SpecOpts) *)

\* the reference options of an option list, in the order they were given
RECURSIVE ReferencesOf(_)
ReferencesOf(args) ==
    IF args = <<>> THEN <<>>
    ELSE IF Head(args).kind = "ref"
         THEN <<[Type |-> Head(args).Type, Metadata |-> Head(args).Metadata]>>
                  \o ReferencesOf(Tail(args))
         ELSE ReferencesOf(Tail(args))

\* C11: after the options of a StartSpan call are applied, References is the
\* subsequence of the reference options in the order given, duplicates kept;
\* a StartTime or Tags option adds nothing to it and removes nothing.
ReferencesPreserved ==
    lastStart.called => lastStart.opts.References = ReferencesOf(lastStart.args)

\* a call was given the same reference twice
DuplicateReferenceWitness ==
    /\ lastStart.called
    /\ Len(lastStart.args) = 2
    /\ lastStart.args[1].kind = "ref"
    /\ lastStart.args[1] = lastStart.args[2]

-----------------------------------------------------------------------------
(* Properties of the span's life (SpecLife) *)

\* how many times FinishedSpans records spans[i]
RECURSIVE Count(_, _)
Count(seq, i) ==
    IF seq = <<>> THEN 0
    ELSE (IF Head(seq) = i THEN 1 ELSE 0) + Count(Tail(seq), i)

\* C12: once a span has been finished, a later SetTag, SetOperationName, Log,
\* LogEvent or LogEventWithPayload (a step that is not a finishing call, so
\* one that leaves FinishedSpans as it is) leaves the Tags, Logs and
\* OperationName of the span recorded in FinishedSpans unchanged.
MutationAfterFinishUnobservable ==
    [][FinishedSpans' = FinishedSpans
           => \A i \in Range(FinishedSpans) :
                  /\ spans'[i].Tags = spans[i].Tags
                  /\ spans'[i].Logs = spans[i].Logs
                  /\ spans'[i].OperationName = spans[i].OperationName]_vars

\* C13: a span that FinishedSpans records stays recorded exactly as often as
\* it is and keeps its FinishTime, whatever Finish and FinishWithOptions
\* calls follow: it is recorded once, with the first call's FinishTime.
FinishedExactlyOnce ==
    [][\A i \in Range(FinishedSpans) :
           /\ Count(FinishedSpans', i) = Count(FinishedSpans, i)
           /\ spans'[i].FinishTime = spans[i].FinishTime]_vars

\* C14: after FinishWithOptions the span's FinishTime is the time of the call
\* when the options carry the zero FinishTime, and the options' FinishTime
\* otherwise; it is never the zero time.
FinishTimeDefaultsToNow ==
    (lastFinish.called /\ lastFinish.kind = "FinishWithOptions")
        => /\ spans[lastFinish.span].FinishTime =
                  IF lastFinish.opts.FinishTime = 0
                  THEN lastFinish.clock
                  ELSE lastFinish.opts.FinishTime
           /\ spans[lastFinish.span].FinishTime # 0

-----------------------------------------------------------------------------
(* Properties of StartSpanFromContext (SpecCtx) *)

\* C15: the span StartSpanFromContext starts has exactly one reference, a
\* RefBlockedParent to the metadata of the span bound to the given context,
\* or no reference when none is bound; SpanFromContext of the returned
\* context is the returned span, and the given context still yields the
\* span (or nil) it yielded before the call.
StartSpanFromContextBinds ==
    lastCtxStart.called
        => /\ lastStart.outcome = "ok"
           /\ lastStart.opts.References =
                  IF lastCtxStart.parentSpan # 0
                  THEN <<[Type     |-> RefBlockedParent,
                          Metadata |-> MockMetadata(spans[lastCtxStart.parentSpan])]>>
                  ELSE <<>>
           /\ SpanFromContext(lastCtxStart.out) = lastStart.span
           /\ SpanFromContext(lastCtxStart.ctx) = lastCtxStart.parentSpan

\* a span started from a context whose span is bound further up the chain,
\* with a reference among the caller's opts
ChildFromContextWitness ==
    /\ lastCtxStart.called
    /\ lastCtxStart.parentSpan # 0
    /\ contexts[lastCtxStart.ctx].key # activeSpanKey
    /\ lastCtxStart.opts # <<>>
    /\ lastCtxStart.opts[1].kind = "ref"
    /\ spans[lastStart.span].ParentID = spans[lastCtxStart.parentSpan].SpanID

\* C16: the span StartSpanFromContext(ctx, name, opts...) starts is the one
\* tracer.StartSpan(name, <parent reference if any>, opts...) starts: the
\* caller's references, StartTime and Tags are applied to it.
StartSpanFromContextHonoursOpts ==
    lastCtxStart.called
        => LET sso == ApplyAll(ParentReference(lastCtxStart.parentSpan)
                                   \o lastCtxStart.opts,
                               ZeroStartSpanOptions)
               direct == newMockSpan(lastStart.name, sso, lastCtxStart.clock,
                                     spans[lastStart.span].SpanID)
           IN  /\ lastStart.opts = sso
               /\ spans[lastStart.span].StartTime = direct.StartTime
               /\ spans[lastStart.span].Tags = direct.Tags

=============================================================================
